---- MODULE Spec2Model ----
(***************************************************************************)
(* The tool-calling client of standard_client.py (MCPClient: connect,      *)
(* process_query, chat_loop, cleanup, main) and the two convert_tool_format*)
(* functions (client.py and standard_client.py).                           *)
(*                                                                         *)
(* Python values are modelled as follows.  A str is a TLA+ string, None is *)
(* the value PyNone.  The result of "\n".join(parts) is the sequence of    *)
(* the parts with the separator "\n" between them.  A decoded JSON value   *)
(* is a record [isMapping, repr] (repr is what str() prints).  The model   *)
(* and the tool server are the environment: what they answer is chosen     *)
(* with \E from bounded sets.                                              *)
(***************************************************************************)
EXTENDS Integers, Sequences, FiniteSets, TLC

\* ---------------------------------------------------------------- constants
MAX_TOOL_CALLS == 5

\* ---------------------------------------------------------------- bounds
\* queries typed into one chat session
MaxQueries == 2
\* tool-call requests the model issues in one session
MaxCalls == 6
\* tool-call requests in one assistant response
MaxBatch == 2
\* departures, in one session, from the plain run in which every response is
\* either the answer text or one well-formed tool call that succeeds
MaxDeviations == 2

\* ---------------------------------------------------------------- values
PyNone == "<None>"

SYSTEM_PROMPT == "You are a helpful assistant with access to tools. ..."

FORCE_PROMPT == "Please provide your final answer based on the information gathered so far. Do not make any more tool calls."

STOP_NOTICE == "[Stopped: exceeded maximum of 5 tool call rounds]"

JSON_ERROR == "Error: Invalid JSON in tool arguments. Please try again with valid JSON. Details: e"

TOOL_ERROR == "Error executing tool: e"

TOOL_RESULT == "result.content"

\* what the user may type at the prompt
Queries == {"search for martin moder on the web", "quit"}

\* the raw argument payloads a model may send with a tool call
RawValid == "{\"query\": \"martin moder\"}"

RawEmpty == ""

RawMalformed == "{\"query\": "

RawList == "[1]"

RawPayloads == {RawValid, RawEmpty, RawMalformed, RawList}

ToolNames == {"search"}

\* the texts a model may answer with
AnswerTexts == {"answer", ""}

\* a conversation turn; fields a role does not use are 0 / PyNone / empty
Turn(role, content, id, has, calls) ==
    [role |-> role, content |-> content, tool_call_id |-> id,
     has_tool_calls |-> has, tool_calls |-> calls]

\* message.model_dump() of a completion's message
model_dump(msg) ==
    Turn("assistant", msg.content, 0, msg.has_tool_calls, msg.tool_calls)

\* x or y  on str / None
PyOrStr(x, y) == IF x = PyNone \/ x = "" THEN y ELSE x

\* json.loads(raw): ok = FALSE stands for json.JSONDecodeError
json_loads(raw) ==
    CASE raw = RawValid -> [ok |-> TRUE, isMapping |-> TRUE, repr |-> "{'query': 'martin moder'}"]
      [] raw = RawList  -> [ok |-> TRUE, isMapping |-> FALSE, repr |-> "[1]"]
      [] OTHER          -> [ok |-> FALSE, isMapping |-> FALSE, repr |-> ""]

\* mutant: a payload that fails to decode is replaced by {} and the tool is called
parse_tool_args_Lenient(raw) ==
    IF raw # "" /\ raw # PyNone /\ json_loads(raw).ok
    THEN json_loads(raw)
    ELSE [ok |-> TRUE, isMapping |-> TRUE, repr |-> "{}"]

\* tool_args = json.loads(tool_args_raw) if tool_args_raw else {}
parse_tool_args(raw) ==
    IF raw # "" /\ raw # PyNone
    THEN json_loads(raw)
    ELSE [ok |-> TRUE, isMapping |-> TRUE, repr |-> "{}"]

\* f"[Calling tool {tool_name} with args {tool_args}]"
Announcement(name, args) ==
    "[Calling tool " \o name \o " with args " \o args.repr \o "]"

RECURSIVE Join(_)
\* "\n".join(parts), for parts that are all str
Join(parts) ==
    IF Len(parts) = 0 THEN <<>>
    ELSE IF Len(parts) = 1 THEN <<parts[1]>>
    ELSE <<parts[1], "\n">> \o Join(Tail(parts))

\* "\n".join raises TypeError when an item is not a str
JoinRaises(parts) == \E i \in 1..Len(parts) : parts[i] = PyNone

IsPrefix(s, t) == Len(s) <= Len(t) /\ SubSeq(t, 1, Len(s)) = s


\* ---------------------------------------------------------------- tool descriptors
\* Python values a schema field may hold, by their repr
PropsValues == {PyNone, "{}", "{'query': {'type': 'string'}}"}

ReqValues == {PyNone, "[]", "['query']"}

\* bool(v) for the values above
Truthy(v) == v \notin {PyNone, "{}", "[]", ""}

PyOr(x, y) == IF Truthy(x) THEN x ELSE y

\* an inputSchema: a dict (with or without the two keys) or something else
Schema(isDict, hasP, p, hasR, r) ==
    [isDict |-> isDict, has_properties |-> hasP, properties |-> p,
     has_required |-> hasR, required |-> r]

Schemas ==
    {Schema(FALSE, FALSE, PyNone, FALSE, PyNone)}
    \cup {Schema(TRUE, hp, p, hr, r) :
            hp \in BOOLEAN, p \in PropsValues, hr \in BOOLEAN, r \in ReqValues}

\* a key that is missing holds no value
WellFormedSchema(sc) ==
    /\ (~sc.has_properties => sc.properties = PyNone)
    /\ (~sc.has_required => sc.required = PyNone)

Descriptions == {"Search the web.", "", PyNone}

ToolDescriptors ==
    {t \in [name : ToolNames, description : Descriptions, inputSchema : Schemas] :
        WellFormedSchema(t.inputSchema)}

\* dict.get(key): the value, or None when the key is missing
SchemaGet(schema, key) ==
    IF key = "properties"
    THEN (IF schema.has_properties THEN schema.properties ELSE PyNone)
    ELSE (IF schema.has_required THEN schema.required ELSE PyNone)

\* client.py: properties = {} ; if isinstance(...): properties = get("properties") or {}
client_properties(schema) ==
    IF schema.isDict THEN PyOr(SchemaGet(schema, "properties"), "{}") ELSE "{}"

\* client.py: required = [] ; if isinstance(...): required = get("required") or []
client_required(schema) ==
    IF schema.isDict THEN PyOr(SchemaGet(schema, "required"), "[]") ELSE "[]"

\* client.py convert_tool_format: the flat (Responses API) record
client_convert_tool_format(t) ==
    [type |-> "function",
     name |-> t.name,
     description |-> t.description,
     parameters |-> [type |-> "object",
                     properties |-> client_properties(t.inputSchema),
                     required |-> client_required(t.inputSchema)]]

\* standard_client.py: the same two defaults
std_properties(schema) ==
    IF schema.isDict THEN PyOr(SchemaGet(schema, "properties"), "{}") ELSE "{}"

\* mutant: required is passed through without the  or []
std_required_NoDefault(schema) ==
    IF schema.isDict THEN SchemaGet(schema, "required") ELSE "[]"

std_required(schema) ==
    IF schema.isDict THEN PyOr(SchemaGet(schema, "required"), "[]") ELSE "[]"

\* standard_client.py convert_tool_format: the nested (Chat Completions) record
convert_tool_format(t) ==
    [type |-> "function",
     function |-> [name |-> t.name,
                   description |-> PyOrStr(t.description, ""),
                   parameters |-> [type |-> "object",
                                   properties |-> std_properties(t.inputSchema),
                                   required |-> std_required(t.inputSchema)]]]

\* the descriptor the search server of simple_search/web_search.py lists
SearchTool ==
    [name |-> "search",
     description |-> "Search the web.",
     inputSchema |-> Schema(TRUE, TRUE, "{'query': {'type': 'string'}}", TRUE, "['query']")]

\* ---------------------------------------------------------------- state
VARIABLES
    pc,               \* where main / chat_loop / process_query stands
    exc,              \* the exception being propagated or handled, "none" if none
    conn,             \* the SSE connection held by exit_stack: none, open, closed
    messages,         \* self.messages
    query,            \* the line read by input()
    tool,             \* the descriptor the tool server lists
    tools,            \* client.py: the converted catalog
    available_tools,  \* process_query: the converted catalog
    response,         \* process_query: response.choices[0].message
    final_text,       \* process_query: final_text
    tool_call_count,  \* process_query: tool_call_count
    idx,              \* process_query: position of the for loop in content.tool_calls
    result,           \* what process_query returned
    queries,          \* queries read so far
    calls_used,       \* tool-call requests the model has issued so far
    deviations,       \* departures from the plain run so far
    invoked,          \* this query: the calls session.call_tool received, in order
    requests,         \* this query: the completion requests sent to the model, in order
    batchLog          \* this query: the tool_calls lists the for loop was entered with

vars == <<pc, exc, conn, messages, query, tool, tools, available_tools, response,
          final_text, tool_call_count, idx, result, queries, calls_used,
          deviations, invoked, requests, batchLog>>

\* a local of process_query that is not bound
Unbound == -1

\* a message: content (str or None) and tool_calls (None when has_tool_calls is FALSE)
Message(content, has, calls) ==
    [content |-> content, has_tool_calls |-> has, tool_calls |-> calls]

NoMessage == Message(PyNone, FALSE, <<>>)

\* a tool-call request: id, function.name, function.arguments
ToolCall(id, name, raw) == [id |-> id, name |-> name, arguments |-> raw]

\* the tool_calls list a model sends for the raw payloads, ids issued in order
ToolCallsFor(raws, base) ==
    [i \in 1..Len(raws) |-> ToolCall(base + i, "search", raws[i])]

RawBatches == UNION {[1..n -> RawPayloads] : n \in 0..MaxBatch}

\* the departures a message makes from the plain run
Deviation(msg) ==
    IF msg.has_tool_calls
    THEN (IF Len(msg.tool_calls) = 0 THEN 1 ELSE Len(msg.tool_calls) - 1)
         + Cardinality({i \in 1..Len(msg.tool_calls) :
                          msg.tool_calls[i].arguments # RawValid})
    ELSE (IF msg.content = "answer" THEN 0 ELSE 1)

\* what a model may answer to one completion request
ModelMessages ==
    {msg \in {Message(c, FALSE, <<>>) : c \in AnswerTexts \cup {PyNone}}
             \cup {Message(PyNone, TRUE, ToolCallsFor(raws, calls_used)) :
                     raws \in {r \in RawBatches : calls_used + Len(r) <= MaxCalls}} :
        deviations + Deviation(msg) <= MaxDeviations}

\* the budget a message spends
SpendCalls(msg) == calls_used + Len(msg.tool_calls)

SpendDeviations(msg) == deviations + Deviation(msg)

\* one entry of the requests log
Request(withTools, ok, msg) ==
    [tools |-> withTools, ok |-> ok, count |-> tool_call_count,
     snapshot |-> Len(messages), ninvoked |-> Len(invoked), message |-> msg]

\* the locals of process_query go away when it returns or raises
LocalsGone ==
    /\ available_tools' = <<>>
    /\ response' = NoMessage
    /\ final_text' = <<>>
    /\ tool_call_count' = Unbound
    /\ idx' = 0

Init ==
    /\ pc = "main"
    /\ exc = "none"
    /\ conn = "none"
    /\ messages = <<>>
    /\ query = ""
    /\ tool = SearchTool
    /\ tools = <<>>
    /\ available_tools = <<>>
    /\ response = NoMessage
    /\ final_text = <<>>
    /\ tool_call_count = Unbound
    /\ idx = 0
    /\ result = <<>>
    /\ queries = 0
    /\ calls_used = 0
    /\ deviations = 0
    /\ invoked = <<>>
    /\ requests = <<>>
    /\ batchLog = <<>>

\* ---------------------------------------------------------------- main, chat_loop
\* connect_to_server succeeds: both contexts entered, session initialised, tools listed
ConnectOk ==
    /\ pc = "main"
    /\ conn' = "open"
    /\ messages' = <<>>
    /\ pc' = "input"
    /\ UNCHANGED <<exc, query, tool, tools, available_tools, response, final_text,
                   tool_call_count, idx, result, queries, calls_used, deviations,
                   invoked, requests, batchLog>>

\* connect_to_server raises: entering sse_client fails (nothing acquired), or
\* initialize / list_tools fails with the connection already on the exit stack
ConnectFails ==
    /\ pc = "main"
    /\ \E acquired \in BOOLEAN : conn' = IF acquired THEN "open" ELSE "none"
    /\ exc' = "ConnectError"
    /\ pc' = "cleanup"
    /\ UNCHANGED <<messages, query, tool, tools, available_tools, response, final_text,
                   tool_call_count, idx, result, queries, calls_used, deviations,
                   invoked, requests, batchLog>>

\* mutant: every query starts the conversation afresh
QueryPreamble_Fresh(msgs, q) ==
    <<Turn("system", SYSTEM_PROMPT, 0, FALSE, <<>>),
      Turn("user", q, 0, FALSE, <<>>)>>

\* the system turn and the user turn process_query starts with
QueryPreamble(msgs, q) ==
    msgs \o <<Turn("system", SYSTEM_PROMPT, 0, FALSE, <<>>),
              Turn("user", q, 0, FALSE, <<>>)>>

\* chat_loop reads a line and calls process_query, which appends its two turns
ReadInput ==
    /\ pc = "input"
    /\ queries < MaxQueries
    /\ \E q \in Queries :
        /\ query' = q
        /\ messages' = QueryPreamble(messages, q)
    /\ queries' = queries + 1
    /\ result' = <<>>
    /\ invoked' = <<>>
    /\ requests' = <<>>
    /\ batchLog' = <<>>
    /\ pc' = "list_tools"
    /\ UNCHANGED <<exc, conn, tool, tools, available_tools, response, final_text,
                   tool_call_count, idx, calls_used, deviations>>

\* input() is interrupted: KeyboardInterrupt is no Exception and leaves chat_loop
Interrupt ==
    /\ pc = "input"
    /\ exc' = "KeyboardInterrupt"
    /\ pc' = "cleanup"
    /\ UNCHANGED <<conn, messages, query, tool, tools, available_tools, response,
                   final_text, tool_call_count, idx, result, queries, calls_used,
                   deviations, invoked, requests, batchLog>>

\* print("Result:"); print(result)
PrintResult ==
    /\ pc = "print_result"
    /\ pc' = "input"
    /\ UNCHANGED <<exc, conn, messages, query, tool, tools, available_tools, response,
                   final_text, tool_call_count, idx, result, queries, calls_used,
                   deviations, invoked, requests, batchLog>>

\* except Exception as e: print(f"Error: {str(e)}")
PrintError ==
    /\ pc = "except"
    /\ exc' = "none"
    /\ pc' = "input"
    /\ UNCHANGED <<conn, messages, query, tool, tools, available_tools, response,
                   final_text, tool_call_count, idx, result, queries, calls_used,
                   deviations, invoked, requests, batchLog>>

\* mutant: cleanup leaves the exit stack as it is
aclose_Nothing(c) == c

\* exit_stack.aclose(): the contexts entered are exited
aclose(c) == IF c = "open" THEN "closed" ELSE c

\* finally: await client.cleanup()
Cleanup ==
    /\ pc = "cleanup"
    /\ conn' = aclose(conn)
    /\ pc' = "ended"
    /\ UNCHANGED <<exc, messages, query, tool, tools, available_tools, response,
                   final_text, tool_call_count, idx, result, queries, calls_used,
                   deviations, invoked, requests, batchLog>>

\* ---------------------------------------------------------------- process_query
\* an exception leaves process_query
Raise(e) ==
    /\ exc' = e
    /\ pc' = "except"
    /\ LocalsGone

\* response = await self.session.list_tools(); available_tools = [...]
ListTools ==
    /\ pc = "list_tools"
    /\ \/ /\ available_tools' = <<convert_tool_format(tool)>>
          /\ pc' = "first_request"
          /\ UNCHANGED <<exc, response, final_text, tool_call_count, idx>>
          /\ UNCHANGED deviations
       \/ /\ deviations < MaxDeviations
          /\ deviations' = deviations + 1
          /\ Raise("ToolServerError")
    /\ UNCHANGED <<conn, messages, query, tool, tools, result, queries, calls_used,
                   invoked, requests, batchLog>>

\* the first completion: its message is appended, then the locals are set up
FirstRequest ==
    /\ pc = "first_request"
    /\ \/ \E msg \in ModelMessages :
            /\ response' = msg
            /\ messages' = Append(messages, model_dump(msg))
            /\ requests' = Append(requests, Request(TRUE, TRUE, msg))
            /\ calls_used' = SpendCalls(msg)
            /\ deviations' = SpendDeviations(msg)
            /\ final_text' = <<>>
            /\ tool_call_count' = 0
            /\ pc' = "loop"
            /\ UNCHANGED <<exc, available_tools, idx>>
       \/ /\ Raise("APIError")
          /\ requests' = Append(requests, Request(TRUE, FALSE, NoMessage))
          /\ deviations < MaxDeviations
          /\ deviations' = deviations + 1
          /\ UNCHANGED <<messages, calls_used>>
    /\ UNCHANGED <<conn, query, tool, tools, result, queries, invoked, batchLog>>

\* mutant: tool_calls is looked at first, the cap only when there are none
LoopBranch_InspectFirst(count, content) ==
    IF content.has_tool_calls THEN "tools"
    ELSE IF count >= MAX_TOOL_CALLS THEN "forced"
    ELSE "final"

\* mutant: an empty answer is not accepted, the model is asked again
LoopBranch_RetryEmpty(count, content) ==
    IF count >= MAX_TOOL_CALLS THEN "forced"
    ELSE IF content.has_tool_calls \/ content.content = "" THEN "tools"
    ELSE "final"

\* mutant: the loop has no cap test
LoopBranch_NoCap(count, content) ==
    IF content.has_tool_calls THEN "tools" ELSE "final"

\* the branch the loop body takes: the cap test comes before the look at tool_calls
LoopBranch(count, content) ==
    IF count >= MAX_TOOL_CALLS THEN "forced"
    ELSE IF content.has_tool_calls THEN "tools"
    ELSE "final"

\* mutant: the counter advances by the number of calls in the list
NextRoundCount_PerCall(count, calls) == count + Len(calls)

\* tool_call_count += 1, once for the whole list
NextRoundCount(count, calls) == count + 1

\* top of the while loop: content is appended, then one of the three branches
LoopTop ==
    /\ pc = "loop"
    /\ LET content == response
           appended == Append(messages, model_dump(content))
           branch == LoopBranch(tool_call_count, content)
       IN  \/ /\ branch = "forced"
              /\ final_text' = Append(final_text, STOP_NOTICE)
              /\ messages' = Append(appended, Turn("user", FORCE_PROMPT, 0, FALSE, <<>>))
              /\ pc' = "forced_request"
              /\ UNCHANGED <<tool_call_count, idx, batchLog>>
           \/ /\ branch = "tools"
              /\ messages' = appended
              /\ tool_call_count' = NextRoundCount(tool_call_count, content.tool_calls)
              /\ batchLog' = Append(batchLog, content.tool_calls)
              /\ idx' = 1
              /\ pc' = IF Len(content.tool_calls) = 0 THEN "next_request" ELSE "tools"
              /\ UNCHANGED final_text
           \/ /\ branch = "final"
              /\ messages' = appended
              /\ final_text' = Append(final_text, content.content)
              /\ pc' = "return"
              /\ UNCHANGED <<tool_call_count, idx, batchLog>>
    /\ UNCHANGED <<exc, conn, query, tool, tools, available_tools, response, result,
                   queries, calls_used, deviations, invoked, requests>>

\* mutant: no handler around call_tool
CaughtByToolHandler_Nothing(e) == FALSE

\* the exceptions a tool invocation may raise that  except Exception  catches
CaughtByToolHandler(e) == e = "Exception"

\* mutant: a call with a name and arguments already used in this query is skipped
CallTool_Dedup(log, call, args, ok) ==
    IF \E i \in 1..Len(log) : log[i].name = call.name /\ log[i].args = args
    THEN log
    ELSE Append(log, [id |-> call.id, name |-> call.name, args |-> args, ok |-> ok,
                      at |-> Len(messages)])

\* session.call_tool(tool_name, tool_args) is called once for the request; the
\* entry notes how long the conversation was when the call started
CallTool(log, call, args, ok) ==
    Append(log, [id |-> call.id, name |-> call.name, args |-> args, ok |-> ok,
                 at |-> Len(messages)])

\* mutant: the announcement is made before the call, so also for a raising call
AnnounceCall_Always(text, call, args, ok) ==
    Append(text, Announcement(call.name, args))

\* the announcement follows call_tool inside the try: a raising call leaves none
AnnounceCall(text, call, args, ok) ==
    IF ok THEN Append(text, Announcement(call.name, args)) ELSE text

\* mutant: the tool turn does not carry the id of the request
ToolTurn_NoId(call, content) == Turn("tool", content, 0, FALSE, <<>>)

\* the tool turn appended for one request
ToolTurn(call, content) == Turn("tool", content, call.id, FALSE, <<>>)

\* mutant: the completion is requested as soon as one call of the list is resolved
AfterCall_RequestEarly(i, n) == "next_request"

\* where the for loop stands after request i of n: the next request of the
\* list, or, after the last one, the completion of line 156
AfterCall(i, n) == IF i = n THEN "next_request" ELSE "tools"

\* one iteration of  for tool_call in content.tool_calls
ToolStep ==
    /\ pc = "tools"
    /\ LET call == response.tool_calls[idx]
           parsed == parse_tool_args(call.arguments)
       IN  \/ /\ ~parsed.ok
              /\ messages' = Append(messages, ToolTurn(call, JSON_ERROR))
              /\ UNCHANGED <<final_text, invoked, deviations, exc>>
              /\ idx' = idx + 1
              /\ pc' = AfterCall(idx, Len(response.tool_calls))
              /\ UNCHANGED <<available_tools, response, tool_call_count>>
           \/ /\ parsed.ok
              /\ \E ok \in BOOLEAN :
                   /\ ok \/ deviations < MaxDeviations
                   /\ deviations' = IF ok THEN deviations ELSE deviations + 1
                   /\ invoked' = CallTool(invoked, call, parsed, ok)
                   /\ IF ok \/ CaughtByToolHandler("Exception")
                      THEN /\ final_text' = AnnounceCall(final_text, call, parsed, ok)
                           /\ messages' = Append(messages,
                                  ToolTurn(call, IF ok THEN TOOL_RESULT ELSE TOOL_ERROR))
                           /\ idx' = idx + 1
                           /\ pc' = AfterCall(idx, Len(response.tool_calls))
                           /\ UNCHANGED <<available_tools, response, tool_call_count, exc>>
                      ELSE /\ Raise("Exception")
                           /\ UNCHANGED messages
    /\ UNCHANGED <<conn, query, tool, tools, result, queries, calls_used, requests,
                   batchLog>>

\* the completion requested after the tool results; its message is not appended here
NextRequest ==
    /\ pc = "next_request"
    /\ \/ \E msg \in ModelMessages :
            /\ response' = msg
            /\ requests' = Append(requests, Request(TRUE, TRUE, msg))
            /\ calls_used' = SpendCalls(msg)
            /\ deviations' = SpendDeviations(msg)
            /\ pc' = "loop"
            /\ UNCHANGED <<exc, available_tools, final_text, tool_call_count, idx>>
       \/ /\ Raise("APIError")
          /\ requests' = Append(requests, Request(TRUE, FALSE, NoMessage))
          /\ deviations < MaxDeviations
          /\ deviations' = deviations + 1
          /\ UNCHANGED calls_used
    /\ UNCHANGED <<conn, messages, query, tool, tools, result, queries, invoked,
                   batchLog>>

\* mutant: the forced request passes the catalog like the other two
ForcedRequestHasTools_Yes == TRUE

\* does the forced request pass tools= ?  (it passes model, messages, max_tokens only)
ForcedRequestHasTools == FALSE

\* the text taken from the forced response
ForcedAnswer(msg) == PyOrStr(msg.content, "")

\* the completion of the forced-final branch; its text ends final_text
ForcedRequest ==
    /\ pc = "forced_request"
    /\ \/ \E msg \in ModelMessages :
            /\ requests' = Append(requests, Request(ForcedRequestHasTools, TRUE, msg))
            /\ calls_used' = SpendCalls(msg)
            /\ deviations' = SpendDeviations(msg)
            /\ final_text' = Append(final_text, ForcedAnswer(msg))
            /\ pc' = "return"
            /\ UNCHANGED <<exc, available_tools, response, tool_call_count, idx>>
       \/ /\ Raise("APIError")
          /\ requests' = Append(requests, Request(ForcedRequestHasTools, FALSE, NoMessage))
          /\ deviations < MaxDeviations
          /\ deviations' = deviations + 1
          /\ UNCHANGED calls_used
    /\ UNCHANGED <<conn, messages, query, tool, tools, result, queries, invoked,
                   batchLog>>

\* return "\n".join(final_text)
Return ==
    /\ pc = "return"
    /\ IF JoinRaises(final_text)
       THEN /\ exc' = "TypeError"
            /\ pc' = "except"
            /\ UNCHANGED result
       ELSE /\ result' = Join(final_text)
            /\ pc' = "print_result"
            /\ UNCHANGED exc
    /\ LocalsGone
    /\ UNCHANGED <<conn, messages, query, tool, tools, queries, calls_used, deviations,
                   invoked, requests, batchLog>>

Next ==
    \/ ConnectOk
    \/ ConnectFails
    \/ ReadInput
    \/ Interrupt
    \/ ListTools
    \/ FirstRequest
    \/ LoopTop
    \/ ToolStep
    \/ NextRequest
    \/ ForcedRequest
    \/ Return
    \/ PrintResult
    \/ PrintError
    \/ Cleanup

Spec == Init /\ [][Next]_vars

\* a step of process_query: each await returns or raises, and the code between
\* two awaits runs on
QueryStep ==
    \/ ListTools
    \/ FirstRequest
    \/ LoopTop
    \/ ToolStep
    \/ NextRequest
    \/ ForcedRequest
    \/ Return

FairSpec == Spec /\ WF_vars(QueryStep)

\* ---------------------------------------------------------------- the two converters
\* any descriptor a tool server may list
InitConvert ==
    /\ Init!1 /\ Init!2 /\ Init!3 /\ Init!4 /\ Init!5
    /\ tool \in ToolDescriptors
    /\ tools = <<>>
    /\ available_tools = <<>>
    /\ response = NoMessage
    /\ final_text = <<>>
    /\ tool_call_count = Unbound
    /\ idx = 0
    /\ result = <<>>
    /\ queries = 0
    /\ calls_used = 0
    /\ deviations = 0
    /\ invoked = <<>>
    /\ requests = <<>>
    /\ batchLog = <<>>

\* client.py: tools = [convert_tool_format(tool) for tool in list_tools_response.tools]
ClientConvert ==
    /\ tools = <<>>
    /\ tools' = <<client_convert_tool_format(tool)>>
    /\ UNCHANGED <<pc, exc, conn, messages, query, tool, available_tools, response,
                   final_text, tool_call_count, idx, result, queries, calls_used,
                   deviations, invoked, requests, batchLog>>

\* standard_client.py: available_tools = [convert_tool_format(tool) for tool in ...]
StdConvert ==
    /\ available_tools = <<>>
    /\ available_tools' = <<convert_tool_format(tool)>>
    /\ UNCHANGED <<pc, exc, conn, messages, query, tool, tools, response,
                   final_text, tool_call_count, idx, result, queries, calls_used,
                   deviations, invoked, requests, batchLog>>

NextConvert == ClientConvert \/ StdConvert

ConvertSpec == InitConvert /\ [][NextConvert]_vars

\* ---------------------------------------------------------------- reading the logs
\* the completion requests of this query that passed the tool catalog
ToolRequests == {i \in 1..Len(requests) : requests[i].tools}

\* the forced (tool-less) request of this query was answered
ForcedAnswered ==
    /\ Len(requests) > 0
    /\ ~requests[Len(requests)].tools
    /\ requests[Len(requests)].ok

\* the requests of batch b the for loop has dealt with so far
ProcessedUpTo(b) ==
    IF b = Len(batchLog) /\ pc = "tools" THEN idx - 1 ELSE Len(batchLog[b])

\* the tool-call requests dealt with so far in this query, as <<batch, position>>
Processed ==
    {bp \in (1..Len(batchLog)) \X (1..MaxBatch + 1) : bp[2] <= ProcessedUpTo(bp[1])}

CallAt(bp) == batchLog[bp[1]][bp[2]]

\* json.loads raises JSONDecodeError on this payload
Undecodable(raw) == raw = RawMalformed

\* the turns of the conversation that answer invocation id
ToolTurnsFor(id) ==
    {j \in 1..Len(messages) : messages[j].role = "tool" /\ messages[j].tool_call_id = id}

InvokedIds == {invoked[i].id : i \in 1..Len(invoked)}

\* s is the parts separated by "\n"
IsJoinOf(s, parts) ==
    /\ Len(parts) > 0
    /\ Len(s) = 2 * Len(parts) - 1
    /\ \A i \in 1..Len(parts) : s[2 * i - 1] = parts[i]
    /\ \A i \in 1..(Len(parts) - 1) : s[2 * i] = "\n"

\* ---------------------------------------------------------------- C1
\* C1 as stated: a completion request issued while the Round Counter is at the
\* maximum is issued without the tool catalog.
C1_RequestAtCapHasNoTools ==
    \A i \in 1..Len(requests) :
        requests[i].count >= MAX_TOOL_CALLS => ~requests[i].tools

\* C1 (amended): once a response to a tool-enabled request has been received with
\* the Round Counter at the maximum, the next completion request carries no tool
\* catalog; it is the last request of the query, no tool is invoked after it, and
\* its text (the empty string when it has none) ends the returned result.
C1_ForcedFinalAfterCapResponse ==
    /\ \A i \in 2..Len(requests) :
         (requests[i - 1].tools /\ requests[i - 1].ok
            /\ requests[i - 1].count >= MAX_TOOL_CALLS) => ~requests[i].tools
    /\ \A i \in 1..Len(requests) :
         ~requests[i].tools =>
            /\ i = Len(requests)
            /\ Len(invoked) = requests[i].ninvoked
            /\ pc \notin {"list_tools", "first_request", "loop", "tools",
                          "next_request", "forced_request"}
            /\ (pc = "print_result" =>
                  result[Len(result)] =
                     (IF requests[i].message.content \in {PyNone, ""}
                      THEN "" ELSE requests[i].message.content))
    /\ (pc = "forced_request") =>
          /\ Len(requests) > 0
          /\ requests[Len(requests)].tools
          /\ requests[Len(requests)].count >= MAX_TOOL_CALLS

\* a query that ran into the cap and returned the forced answer
C1_Witness ==
    /\ pc = "print_result"
    /\ ForcedAnswered
    /\ Len(requests) = MAX_TOOL_CALLS + 2
    /\ requests[Len(requests)].message.has_tool_calls

\* ---------------------------------------------------------------- C2
\* C2: the Round Counter exists from the first pass of the loop to the return, is
\* zero when the loop is first entered, and always equals the number of
\* tool_calls lists taken up so far, whatever their sizes and outcomes; at the top
\* of the loop that is one less than the tool-enabled requests issued.
C2_RoundCounterCountsBatches ==
    /\ (tool_call_count # Unbound) <=>
          pc \in {"loop", "tools", "next_request", "forced_request", "return"}
    /\ (tool_call_count # Unbound) => tool_call_count = Len(batchLog)
    /\ (pc = "loop") => tool_call_count = Cardinality(ToolRequests) - 1
    /\ (pc = "loop" /\ Len(requests) = 1) => tool_call_count = 0

\* two rounds done: one of two calls (one of them malformed), one of a single call
C2_Witness ==
    /\ pc = "next_request"
    /\ tool_call_count = 2
    /\ Len(batchLog[1]) = 2
    /\ Len(batchLog[2]) = 1
    /\ Len(invoked) = 2

\* ---------------------------------------------------------------- C3
\* C3: a request whose payload json.loads rejects never reaches call_tool and gets
\* exactly one tool turn, with its id and the invalid-JSON text; the requests
\* after it in the list are dealt with as well.
C3_MalformedGetsErrorTurnOnly ==
    \A bp \in Processed :
        Undecodable(CallAt(bp).arguments) =>
            /\ CallAt(bp).id \notin InvokedIds
            /\ Cardinality(ToolTurnsFor(CallAt(bp).id)) = 1
            /\ \A j \in ToolTurnsFor(CallAt(bp).id) : messages[j].content = JSON_ERROR
            /\ (pc # "tools" =>
                  \A k \in (bp[2] + 1)..Len(batchLog[bp[1]]) :
                      Cardinality(ToolTurnsFor(batchLog[bp[1]][k].id)) = 1)

\* a list of two: the first malformed, the second invoked
C3_Witness ==
    /\ pc = "next_request"
    /\ Len(batchLog) = 1
    /\ Len(batchLog[1]) = 2
    /\ Undecodable(batchLog[1][1].arguments)
    /\ InvokedIds = {batchLog[1][2].id}

\* ---------------------------------------------------------------- C4
\* C4: an exception of call_tool never leaves process_query; the failed request
\* gets exactly one tool turn with its id and the error text, the rest of the
\* list is dealt with, and every list taken up is followed by a completion request.
C4_ToolErrorBecomesTurn ==
    /\ exc # "Exception"
    /\ \A i \in 1..Len(invoked) :
         ~invoked[i].ok =>
            /\ Cardinality(ToolTurnsFor(invoked[i].id)) = 1
            /\ \A j \in ToolTurnsFor(invoked[i].id) : messages[j].content = TOOL_ERROR
    /\ (pc # "tools") =>
          \A b \in 1..Len(batchLog) : \A k \in 1..Len(batchLog[b]) :
              Cardinality(ToolTurnsFor(batchLog[b][k].id)) = 1
    /\ (Len(requests) > 0 /\ pc \notin {"tools", "next_request"}) =>
          Cardinality(ToolRequests) = Len(batchLog) + 1

\* the first call of a list of two raised, the second ran, the model was asked again
C4_Witness ==
    /\ pc = "loop"
    /\ Len(batchLog) = 1
    /\ Len(invoked) = 2
    /\ ~invoked[1].ok
    /\ invoked[2].ok
    /\ Len(requests) = 2

\* ---------------------------------------------------------------- C5
\* C5: process_query raises only when a request to the model or to the tool server
\* itself failed; no sequence of responses and tool outcomes makes it raise.
C5_NeverRaisesOnResponses ==
    (pc = "except") => exc \in {"APIError", "ToolServerError"}

\* ---------------------------------------------------------------- C6
\* C6: every step leaves the conversation a prefix of what it becomes.
C6_AppendOnly == [][IsPrefix(messages, messages')]_vars

\* a second query returned, on top of the turns of the first
C6_Witness ==
    /\ pc = "print_result"
    /\ queries = 2
    /\ Cardinality({j \in 1..Len(messages) : messages[j].role = "system"}) = 2
    /\ Cardinality({j \in 1..Len(messages) : messages[j].role = "tool"}) >= 2

\* ---------------------------------------------------------------- C7
\* C7: a response received with the Round Counter at or above the maximum has none
\* of its tool calls executed or answered and leads to the forced request; no
\* query takes up more than MAX_TOOL_CALLS tool_calls lists.
C7_CapCheckedBeforeInspection ==
    /\ Len(batchLog) <= MAX_TOOL_CALLS
    /\ \A i \in 1..Len(requests) :
         (requests[i].tools /\ requests[i].ok /\ requests[i].count >= MAX_TOOL_CALLS) =>
            /\ \A k \in 1..Len(requests[i].message.tool_calls) :
                 /\ requests[i].message.tool_calls[k].id \notin InvokedIds
                 /\ ToolTurnsFor(requests[i].message.tool_calls[k].id) = {}
            /\ pc \notin {"tools", "next_request", "first_request"}
            /\ Len(batchLog) = MAX_TOOL_CALLS
            /\ (i < Len(requests) => (i + 1 = Len(requests) /\ ~requests[i + 1].tools))

\* five lists with calls were executed and the sixth response asks for a tool again
C7_Witness ==
    /\ pc = "forced_request"
    /\ Len(batchLog) = MAX_TOOL_CALLS
    /\ \A b \in 1..Len(batchLog) : Len(batchLog[b]) >= 1
    /\ Len(requests) = MAX_TOOL_CALLS + 1
    /\ Len(requests[Len(requests)].message.tool_calls) >= 1
    /\ Len(invoked) = MAX_TOOL_CALLS

\* ---------------------------------------------------------------- C8
\* the answer text of the response that ended the query
FinalAnswerText ==
    LET last == requests[Len(requests)].message
    IN  IF requests[Len(requests)].tools THEN last.content
        ELSE (IF last.content \in {PyNone, ""} THEN "" ELSE last.content)

\* the announcements of the invocations in log, in order
AnnouncementsOf(log) ==
    [i \in 1..Len(log) |-> Announcement(log[i].name, log[i].args)]

\* C8 as stated: the returned text is the announcements of all the invocations
\* made, in order, then the final answer.
C8_AnnouncementsThenAnswer ==
    (pc = "print_result") =>
        IsJoinOf(result, AnnouncementsOf(invoked) \o <<FinalAnswerText>>)

\* C8 (amended): the returned text is the announcements of the invocations that
\* returned without raising, in order, then the stop notice if the round cap ended
\* the query, then the final answer as its last part.
C8_SuccessfulAnnouncementsNoticeAnswer ==
    (pc = "print_result") =>
        IsJoinOf(result,
                 AnnouncementsOf(SelectSeq(invoked, LAMBDA e : e.ok))
                 \o (IF ForcedAnswered THEN <<STOP_NOTICE>> ELSE <<>>)
                 \o <<FinalAnswerText>>)

\* a query with a raising call that ran into the cap
C8_Witness ==
    /\ pc = "print_result"
    /\ ForcedAnswered
    /\ \E i \in 1..Len(invoked) : ~invoked[i].ok
    /\ \E i \in 1..Len(invoked) : invoked[i].ok

\* ---------------------------------------------------------------- C9
\* the requests dealt with so far whose payload did not fail to decode, in order
RECURSIVE DecodedIds(_, _)
DecodedIds(b, k) ==
    IF b > Len(batchLog) THEN <<>>
    ELSE IF k > ProcessedUpTo(b) THEN DecodedIds(b + 1, 1)
    ELSE (IF Undecodable(batchLog[b][k].arguments) THEN <<>> ELSE <<batchLog[b][k].id>>)
         \o DecodedIds(b, k + 1)

\* C9: call_tool is called once for every request whose payload did not fail to
\* decode, in request order, also when name and arguments repeat an earlier call.
C9_EveryDecodedRequestInvoked ==
    /\ [i \in 1..Len(invoked) |-> invoked[i].id] = DecodedIds(1, 1)
    /\ \A i \in 1..Len(invoked) : \A bp \in Processed :
         CallAt(bp).id = invoked[i].id =>
            /\ invoked[i].name = CallAt(bp).name
            /\ invoked[i].args.ok

\* the same call was made in two rounds and twice in one list
C9_Witness ==
    /\ pc = "print_result"
    /\ Len(batchLog) = 2
    /\ Len(batchLog[2]) = 2
    /\ Len(invoked) = 3
    /\ \A i \in 1..3 : invoked[i].name = invoked[1].name /\ invoked[i].args = invoked[1].args

\* ---------------------------------------------------------------- C10
\* the guarantees on one converted parameters record for the schema it came from
NormalizedFor(params, sc) ==
    /\ params.type = "object"
    /\ params.properties # PyNone
    /\ params.required # PyNone
    /\ (~sc.isDict \/ ~sc.has_properties \/ sc.properties = PyNone) =>
          params.properties = "{}"
    /\ (~sc.isDict \/ ~sc.has_required \/ sc.required = PyNone) =>
          params.required = "[]"
    /\ (sc.isDict /\ sc.has_properties /\ sc.properties \notin {PyNone, "{}"}) =>
          params.properties = sc.properties
    /\ (sc.isDict /\ sc.has_required /\ sc.required \notin {PyNone, "[]"}) =>
          params.required = sc.required

\* C10: both converters give type object, properties {} and required [] for a
\* schema that is no dict or lacks the field or has it null, never None; given
\* fields are passed on, and the two dialects carry the same parameters.
C10_BothDialectsNormalized ==
    /\ (tools # <<>>) => NormalizedFor(tools[1].parameters, tool.inputSchema)
    /\ (available_tools # <<>>) =>
          NormalizedFor(available_tools[1].function.parameters, tool.inputSchema)
    /\ (tools # <<>> /\ available_tools # <<>>) =>
          tools[1].parameters = available_tools[1].function.parameters

\* both conversions done for a dict schema with null properties and no required
C10_Witness ==
    /\ tools # <<>>
    /\ available_tools # <<>>
    /\ tool.inputSchema.isDict
    /\ tool.inputSchema.has_properties
    /\ tool.inputSchema.properties = PyNone
    /\ ~tool.inputSchema.has_required

\* ---------------------------------------------------------------- reading the conversation
\* process_query is running
InQuery ==
    pc \in {"list_tools", "first_request", "loop", "tools", "next_request",
            "forced_request", "return"}

\* where the turns of the latest query start: its system turn
QueryStart ==
    LET sys == {j \in 1..Len(messages) : messages[j].role = "system"}
    IN  IF sys = {} THEN 1 ELSE CHOOSE j \in sys : \A k \in sys : k <= j

\* the positions of the turns of a role in the latest query
SegmentTurns(role) ==
    {j \in QueryStart..Len(messages) : messages[j].role = role}

\* the tool-enabled requests of this query that got a response
AnsweredToolRequests == {i \in ToolRequests : requests[i].ok}

\* the ids of all the requests dealt with so far in this query, in order
RECURSIVE ProcessedIds(_, _)
ProcessedIds(b, k) ==
    IF b > Len(batchLog) THEN <<>>
    ELSE IF k > ProcessedUpTo(b) THEN ProcessedIds(b + 1, 1)
    ELSE <<batchLog[b][k].id>> \o ProcessedIds(b, k + 1)

\* the ids carried by the tool turns of the latest query, in order
SegmentToolTurnIds ==
    LET seg == SelectSeq(SubSeq(messages, QueryStart, Len(messages)),
                         LAMBDA t : t.role = "tool")
    IN  [i \in 1..Len(seg) |-> seg[i].tool_call_id]

\* the assistant turn a turn at position j comes after (0 if none)
AssistantBefore(j) ==
    LET as == {a \in 1..(j - 1) : messages[a].role = "assistant"}
    IN  IF as = {} THEN 0 ELSE CHOOSE a \in as : \A k \in as : k <= a

\* ---------------------------------------------------------------- C11
\* C11: once main has ended the connection is not held any more, whichever way
\* main ended; it is closed by nothing but the cleanup in main's finally, so it is
\* open during every query.
C11_ConnectionReleasedAtEnd ==
    /\ (pc = "ended") => conn # "open"
    /\ (conn = "closed") => pc = "ended"
    /\ InQuery => conn = "open"
    /\ (pc = "ended" /\ exc = "KeyboardInterrupt") => conn = "closed"

\* main ended by an exception that left the chat loop after a query
C11_Witness ==
    /\ pc = "ended"
    /\ exc = "KeyboardInterrupt"
    /\ queries >= 1
    /\ conn = "closed"

\* ---------------------------------------------------------------- C12
\* C12: the calls of a list are invoked in list order, each request dealt with
\* earlier has its tool turn in the conversation when a call starts, and when a
\* completion is requested every request of the lists before it has its tool turn.
C12_OneOperationAtATime ==
    /\ \A i \in 1..Len(invoked) : \A j \in 1..Len(invoked) :
         i < j => invoked[i].id < invoked[j].id
    /\ \A j \in 1..Len(invoked) : \A b \in 1..Len(batchLog) :
         \A k \in 1..Len(batchLog[b]) :
            batchLog[b][k].id < invoked[j].id =>
               /\ ToolTurnsFor(batchLog[b][k].id) # {}
               /\ \A t \in ToolTurnsFor(batchLog[b][k].id) : t <= invoked[j].at
    /\ \A r \in 2..Len(requests) : \A b \in 1..Len(batchLog) :
         b <= r - 1 =>
            \A k \in 1..Len(batchLog[b]) :
               /\ ToolTurnsFor(batchLog[b][k].id) # {}
               /\ \A t \in ToolTurnsFor(batchLog[b][k].id) : t <= requests[r].snapshot
    /\ \A r \in 1..Len(requests) : \A j \in 1..Len(invoked) :
         (invoked[j].at < requests[r].snapshot) =>
            \E t \in ToolTurnsFor(invoked[j].id) : t <= requests[r].snapshot

\* a list of two calls was invoked one after the other, then the model was asked
C12_Witness ==
    /\ pc = "loop"
    /\ Len(requests) = 2
    /\ Len(batchLog) = 1
    /\ Len(batchLog[1]) = 2
    /\ Len(invoked) = 2
    /\ invoked[2].at = invoked[1].at + 1

\* ---------------------------------------------------------------- C13
\* C13: once a response has been taken up by the loop, the latest query holds
\* exactly one assistant turn per response received to a tool-enabled request.
C13_OneAssistantTurnPerResponse ==
    (pc \in {"tools", "next_request", "forced_request", "return", "print_result"}) =>
        Cardinality(SegmentTurns("assistant")) = Cardinality(AnsweredToolRequests)

\* ---------------------------------------------------------------- C14
\* C14: every argument value call_tool received is a mapping.
C14_InvokerGetsMapping ==
    \A i \in 1..Len(invoked) : invoked[i].args.isMapping

\* ---------------------------------------------------------------- C15
\* C15: the tool turns of the query carry, in order, exactly the ids of the
\* requests dealt with, one turn per request, and each tool turn answers a
\* request of the assistant turn it comes after.
C15_ToolTurnsMatchRequests ==
    /\ SegmentToolTurnIds = ProcessedIds(1, 1)
    /\ \A bp \in Processed : Cardinality(ToolTurnsFor(CallAt(bp).id)) = 1
    /\ \A j \in SegmentTurns("tool") :
         /\ AssistantBefore(j) > 0
         /\ messages[AssistantBefore(j)].has_tool_calls
         /\ \E k \in 1..Len(messages[AssistantBefore(j)].tool_calls) :
               messages[AssistantBefore(j)].tool_calls[k].id = messages[j].tool_call_id

\* two lists answered: a malformed and a succeeding request, then a single one
C15_Witness ==
    /\ pc = "loop"
    /\ Len(batchLog) = 2
    /\ Len(batchLog[1]) = 2
    /\ Undecodable(batchLog[1][1].arguments)
    /\ Len(batchLog[2]) = 1
    /\ Len(SegmentToolTurnIds) = 3

C17_QueryTerminates ==
    /\ [](/\ Cardinality(ToolRequests) <= MAX_TOOL_CALLS + 1
          /\ Cardinality({i \in 1..Len(requests) : ~requests[i].tools}) <= 1
          /\ (pc = "tools" => idx \in 1..Len(response.tool_calls)))
    /\ (InQuery ~> ~InQuery)

\* the longest query: six requests with the catalog, then the forced one
C17_Witness ==
    /\ pc = "return"
    /\ Cardinality(ToolRequests) = MAX_TOOL_CALLS + 1
    /\ Len(requests) = MAX_TOOL_CALLS + 2
    /\ Len(invoked) >= MAX_TOOL_CALLS

\* ---------------------------------------------------------------- C18
\* C18: the line 'quit' is never handed to process_query.
C18_QuitEndsLoop == ~(InQuery /\ query = "quit")

\* ---------------------------------------------------------------- C19
\* C19: in the conversation sent with a completion request, every tool call of
\* every assistant turn is followed by a tool turn with its id.
C19_EveryCallAnsweredAtRequest ==
    \A r \in 1..Len(requests) :
        \A a \in 1..requests[r].snapshot :
            messages[a].role = "assistant" =>
                \A k \in 1..Len(messages[a].tool_calls) :
                    \E t \in (a + 1)..requests[r].snapshot :
                        /\ messages[t].role = "tool"
                        /\ messages[t].tool_call_id = messages[a].tool_calls[k].id

\* ---------------------------------------------------------------- C20
\* C20: when process_query has returned, the last assistant turn of the
\* conversation holds the final answer it returned.
C20_FinalAnswerRecorded ==
    (pc = "print_result") =>
        /\ AssistantBefore(Len(messages) + 1) > 0
        /\ messages[AssistantBefore(Len(messages) + 1)].content = FinalAnswerText

====
